---- MODULE Spec2Model ----
(***************************************************************************)
(* The fallback YAML reader of scripts/build_system.py: parse_yaml_minimal *)
(* (tokenizer, parse_block / parse_map / parse_list descent, top-level     *)
(* shape check), parse_scalar and strip_comment.                           *)
(*                                                                         *)
(* A text is a sequence of lines (what str.splitlines() yields); a line    *)
(* and every other Python str is a sequence of one-character strings.      *)
(* Cursors are 0-based as in the source: token idx is tokens[idx + 1].     *)
(***************************************************************************)
EXTENDS Integers, Sequences, FiniteSets, TLC

VARIABLES text, out, value, scalar

vars == <<text, out, value, scalar>>

(***************************************************************************)
(* Bounds of the checked inputs.                                           *)
(***************************************************************************)
MaxLines == 3
MaxDeepLines == 4
MaxTabLines == 3
MaxChunks == 3
MaxNestLines == 4

(***************************************************************************)
(* Python str helpers, over the characters the inputs are built from.      *)
(***************************************************************************)
NotRun == [status |-> "not run"]

\* str.strip()/rstrip() without argument remove whitespace; of the modelled
\* characters these are the space and the tab.
IsSpace(c) == c \in {" ", "\t"}

RECURSIVE LStripSpaces(_)
\* raw.lstrip(" "): only spaces
LStripSpaces(s) ==
    IF s # <<>> /\ Head(s) = " " THEN LStripSpaces(Tail(s)) ELSE s

RECURSIVE LStrip(_)
LStrip(s) == IF s # <<>> /\ IsSpace(Head(s)) THEN LStrip(Tail(s)) ELSE s

RECURSIVE RStrip(_)
RStrip(s) ==
    IF s # <<>> /\ IsSpace(s[Len(s)]) THEN RStrip(SubSeq(s, 1, Len(s) - 1)) ELSE s

Strip(s) == RStrip(LStrip(s))

StartsWith(s, p) == Len(s) >= Len(p) /\ SubSeq(s, 1, Len(p)) = p

EndsWith(s, p) == Len(s) >= Len(p) /\ SubSeq(s, Len(s) - Len(p) + 1, Len(s)) = p

Contains(s, c) == \E i \in 1..Len(s) : s[i] = c

\* The least position of c in s (s contains c).
FirstIndex(s, c) == CHOOSE i \in 1..Len(s) : s[i] = c /\ \A j \in 1..(i - 1) : s[j] # c

\* str.partition(c): (head, sep, tail); sep is empty when c does not occur.
Partition(s, c) ==
    IF Contains(s, c)
    THEN [head |-> SubSeq(s, 1, FirstIndex(s, c) - 1), sep |-> TRUE,
          tail |-> SubSeq(s, FirstIndex(s, c) + 1, Len(s))]
    ELSE [head |-> s, sep |-> FALSE, tail |-> <<>>]

UpperCase == <<"A", "B", "C", "D", "E", "F", "G", "H", "I", "J", "K", "L", "M",
               "N", "O", "P", "Q", "R", "S", "T", "U", "V", "W", "X", "Y", "Z">>

LowerCase == <<"a", "b", "c", "d", "e", "f", "g", "h", "i", "j", "k", "l", "m",
               "n", "o", "p", "q", "r", "s", "t", "u", "v", "w", "x", "y", "z">>

LowerChar(c) ==
    IF \E i \in 1..Len(UpperCase) : UpperCase[i] = c
    THEN LowerCase[CHOOSE i \in 1..Len(UpperCase) : UpperCase[i] = c]
    ELSE c

\* str.lower()
Lower(s) == [i \in 1..Len(s) |-> LowerChar(s[i])]

Digits == <<"0", "1", "2", "3", "4", "5", "6", "7", "8", "9">>

IsDigit(c) == \E i \in 1..Len(Digits) : Digits[i] = c

DigitValue(c) == (CHOOSE i \in 1..Len(Digits) : Digits[i] = c) - 1

\* MatchesInteger for the pattern \d+, without the sign
MatchesInteger_unsigned(s) == s # <<>> /\ \A i \in 1..Len(s) : IsDigit(s[i])

\* re.fullmatch(r"-?\d+", value)
MatchesInteger(s) ==
    LET body == IF s # <<>> /\ Head(s) = "-" THEN Tail(s) ELSE s
    IN  body # <<>> /\ \A i \in 1..Len(body) : IsDigit(body[i])

RECURSIVE DecimalValue(_)
DecimalValue(s) ==
    IF s = <<>> THEN 0
    ELSE 10 * DecimalValue(SubSeq(s, 1, Len(s) - 1)) + DigitValue(s[Len(s)])

\* int(value) of a text matching -?\d+
IntOf(s) == IF Head(s) = "-" THEN 0 - DecimalValue(Tail(s)) ELSE DecimalValue(s)

(***************************************************************************)
(* Values: the Python objects the parser builds.                           *)
(***************************************************************************)
Null == [t |-> "null"]

Boolean(b) == [t |-> "bool", v |-> b]

Integer(n) == [t |-> "int", v |-> n]

String(s) == [t |-> "str", v |-> s]

\* A dict, as its (key, value) pairs in insertion order.
Mapping(pairs) == [t |-> "map", v |-> pairs]

Sequence(items) == [t |-> "seq", v |-> items]

Keys(pairs) == {pairs[i].k : i \in 1..Len(pairs)}

\* mapping[key] of a dict holding key
Lookup(pairs, key) == pairs[CHOOSE i \in 1..Len(pairs) : pairs[i].k = key].v

\* Put that leaves a key already present as it is
Put_keep_first(pairs, key, val) ==
    IF \E i \in 1..Len(pairs) : pairs[i].k = key
    THEN pairs
    ELSE Append(pairs, [k |-> key, v |-> val])

\* mapping[key] = val: a key already present keeps its place and takes the
\* new value, a new key goes last.
Put(pairs, key, val) ==
    IF key \in Keys(pairs)
    THEN [i \in 1..Len(pairs) |->
             IF pairs[i].k = key THEN [k |-> key, v |-> val] ELSE pairs[i]]
    ELSE Append(pairs, [k |-> key, v |-> val])

RECURSIVE Update(_, _)
\* item.update(child)
Update(pairs, child) ==
    IF child = <<>> THEN pairs
    ELSE Update(Put(pairs, Head(child).k, Head(child).v), Tail(child))

(***************************************************************************)
(* strip_comment and parse_scalar                                          *)
(***************************************************************************)
RECURSIVE strip_comment_scan(_, _, _, _)
\* The for loop of strip_comment from position idx (0-based) on.
strip_comment_scan(val, idx, in_single, in_double) ==
    IF idx >= Len(val) THEN Strip(val)
    ELSE LET char == val[idx + 1]
         IN  IF char = "'" /\ ~in_double
             THEN strip_comment_scan(val, idx + 1, ~in_single, in_double)
             ELSE IF char = "\"" /\ ~in_single
             THEN strip_comment_scan(val, idx + 1, in_single, ~in_double)
             ELSE IF char = "#" /\ ~in_single /\ ~in_double
             THEN RStrip(SubSeq(val, 1, idx))
             ELSE strip_comment_scan(val, idx + 1, in_single, in_double)

\* strip_comment that cuts at the first "#", quoted or not
strip_comment_any_hash(val) ==
    IF Contains(val, "#") THEN RStrip(SubSeq(val, 1, FirstIndex(val, "#") - 1))
    ELSE Strip(val)

strip_comment(val) == strip_comment_scan(val, 0, FALSE, FALSE)

\* coerce with None for the empty text
coerce_empty_is_null(v) ==
    LET lowered == Lower(v)
    IN  IF v = <<>> THEN Null
        ELSE IF lowered \in {<<"t", "r", "u", "e">>, <<"f", "a", "l", "s", "e">>}
        THEN Boolean(lowered = <<"t", "r", "u", "e">>)
        ELSE IF lowered \in {<<"n", "u", "l", "l">>, <<"n", "o", "n", "e">>}
        THEN Null
        ELSE IF MatchesInteger(v) THEN Integer(IntOf(v))
        ELSE IF \/ StartsWith(v, <<"\"">>) /\ EndsWith(v, <<"\"">>)
                \/ StartsWith(v, <<"'">>) /\ EndsWith(v, <<"'">>)
        THEN String(SubSeq(v, 2, Len(v) - 1))
        ELSE String(v)

\* Lines 207-224 of parse_scalar, on the comment-stripped text.
coerce(v) ==
    LET lowered == Lower(v)
    IN  IF v = <<>> THEN String(<<>>)
        ELSE IF lowered \in {<<"t", "r", "u", "e">>, <<"f", "a", "l", "s", "e">>}
        THEN Boolean(lowered = <<"t", "r", "u", "e">>)
        ELSE IF lowered \in {<<"n", "u", "l", "l">>, <<"n", "o", "n", "e">>}
        THEN Null
        ELSE IF MatchesInteger(v) THEN Integer(IntOf(v))
        ELSE IF \/ StartsWith(v, <<"\"">>) /\ EndsWith(v, <<"\"">>)
                \/ StartsWith(v, <<"'">>) /\ EndsWith(v, <<"'">>)
        THEN String(SubSeq(v, 2, Len(v) - 1))
        ELSE String(v)

parse_scalar(val) == coerce(strip_comment(val))

(***************************************************************************)
(* The tokenizer of parse_yaml_minimal                                     *)
(***************************************************************************)
\* A raised BriefError whose message names a line.
Raise(msg, line_no) == [ok |-> FALSE, err |-> [msg |-> msg, line |-> line_no]]

TabsNotSupported == "Tabs are not supported in YAML"

MustBeMapping == "Brief YAML must be a mapping at the top level"

RECURSIVE tokenize(_, _, _)

\* tokenize with the tab error naming the count of tokens so far plus one
\* in place of line_no
tokenize_counting_tokens(lines, line_no, tokens) ==
    IF line_no > Len(lines) THEN [ok |-> TRUE, tokens |-> tokens]
    ELSE LET raw == lines[line_no]
             stripped == LStripSpaces(raw)
         IN  IF Strip(raw) = <<>> THEN tokenize(lines, line_no + 1, tokens)
             ELSE IF StartsWith(stripped, <<"#">>)
             THEN tokenize(lines, line_no + 1, tokens)
             ELSE IF Contains(raw, "\t")
             THEN Raise(TabsNotSupported, Len(tokens) + 1)
             ELSE tokenize(lines, line_no + 1,
                           Append(tokens, [indent |-> Len(raw) - Len(stripped),
                                           content |-> RStrip(stripped),
                                           line |-> line_no]))

\* The for loop over enumerate(text.splitlines(), start=1), from line_no on.
tokenize(lines, line_no, tokens) ==
    IF line_no > Len(lines) THEN [ok |-> TRUE, tokens |-> tokens]
    ELSE LET raw == lines[line_no]
             stripped == LStripSpaces(raw)
         IN  IF Strip(raw) = <<>> THEN tokenize(lines, line_no + 1, tokens)
             ELSE IF StartsWith(stripped, <<"#">>)
             THEN tokenize(lines, line_no + 1, tokens)
             ELSE IF Contains(raw, "\t")
             THEN Raise(TabsNotSupported, line_no)
             ELSE tokenize(lines, line_no + 1,
                           Append(tokens, [indent |-> Len(raw) - Len(stripped),
                                           content |-> RStrip(stripped),
                                           line |-> line_no]))

(***************************************************************************)
(* The descent of parse_yaml_minimal.  Every operator takes the token list *)
(* (a closure variable in the source) and a log, and yields either         *)
(* [ok |-> TRUE, val, idx, log] for "return val, idx" or                   *)
(* [ok |-> FALSE, err, log] for a raised BriefError.  The log is the       *)
(* history of the run: calls, returns, tokens taken by a loop iteration,   *)
(* stored mapping entries and appended list items.                         *)
(***************************************************************************)
Tok(tokens, idx) == tokens[idx + 1]

Marker == <<"-", " ">>

\* The value of x, worked out once, handed to F: "r = x; F(r)".
Once(x, F(_)) == CHOOSE y \in {F(r) : r \in {x}} : TRUE

Fail(msg, line_no, log) == [ok |-> FALSE, err |-> [msg |-> msg, line |-> line_no], log |-> log]

Done(val, idx, log) == [ok |-> TRUE, val |-> val, idx |-> idx, log |-> log]

Call(fn, idx, indent) == [ev |-> "call", fn |-> fn, idx |-> idx, indent |-> indent]

Take(fn, idx, indent) == [ev |-> "take", fn |-> fn, idx |-> idx, indent |-> indent]

\* "return val, next" of the call fn(idx, indent), or the error it raised
Return(fn, idx, indent, result) ==
    Once(result, LAMBDA r :
        IF r.ok
        THEN [r EXCEPT !.log = Append(@, [ev |-> "return", fn |-> fn, idx |-> idx,
                                          indent |-> indent, val |-> r.val,
                                          next |-> r.idx])]
        ELSE r)

\* mapping[key] = val by the parse_map iteration on token idx, which goes on at next
Entry(idx, key, val, next) ==
    [ev |-> "entry", idx |-> idx, key |-> key, val |-> val, next |-> next]

\* items.append(val) by the parse_list iteration on token idx, which goes on at next
Item(idx, val, next) == [ev |-> "item", idx |-> idx, val |-> val, next |-> next]

\* item[key] = val for the inline key of the list item on token idx, with the
\* cursor at next afterwards
Inline(idx, key, val, next) ==
    [ev |-> "inline", idx |-> idx, key |-> key, val |-> val, next |-> next]

\* parse_list leaves its loop by "break" on token idx
Break(idx, indent) == [ev |-> "break", idx |-> idx, indent |-> indent]

\* line 138 and line 160: idx < len(tokens) and tokens[idx][0] == indent
AtIndent(tokens, idx, indent) == idx < Len(tokens) /\ Tok(tokens, idx).indent = indent

\* NoDeeperBlock with "<" for "<="
NoDeeperBlock_strict(tokens, idx, indent) ==
    idx >= Len(tokens) \/ Tok(tokens, idx).indent < indent

\* line 151 and line 167: idx >= len(tokens) or tokens[idx][0] <= indent
NoDeeperBlock(tokens, idx, indent) ==
    idx >= Len(tokens) \/ Tok(tokens, idx).indent <= indent

\* line 179 and line 184: idx < len(tokens) and tokens[idx][0] > indent
DeeperFollows(tokens, idx, indent) ==
    idx < Len(tokens) /\ Tok(tokens, idx).indent > indent

\* parse_map without the check for a list item
UnexpectedListItem_never(content) == FALSE

\* line 140: content.startswith("- ") in parse_map
UnexpectedListItem(content) == StartsWith(content, Marker)

RECURSIVE parse_block(_, _, _, _)
RECURSIVE parse_map(_, _, _, _)
RECURSIVE parse_map_loop(_, _, _, _, _)
RECURSIVE parse_list(_, _, _, _)
RECURSIVE parse_list_loop(_, _, _, _, _)
RECURSIVE parse_list_inline(_, _, _, _, _, _)
RECURSIVE parse_list_more(_, _, _, _, _, _, _)

parse_block(tokens, idx, indent, log) ==
    LET log1 == Append(log, Call("parse_block", idx, indent))
    IN  IF idx >= Len(tokens)
        THEN Return("parse_block", idx, indent, Done(Null, idx, log1))
        ELSE IF Tok(tokens, idx).indent # indent
        THEN Fail("Unexpected indentation", Tok(tokens, idx).line, log1)
        ELSE IF StartsWith(Tok(tokens, idx).content, Marker)
        THEN Return("parse_block", idx, indent, parse_list(tokens, idx, indent, log1))
        ELSE Return("parse_block", idx, indent, parse_map(tokens, idx, indent, log1))

\* parse_map_store with the loop going on at the token after the key,
\* whatever the nested block took
parse_map_store_after_key(tokens, idx, indent, mapping, key, val, next, log) ==
    parse_map_loop(tokens, idx + 1, indent, Put(mapping, key, val),
                   Append(log, Entry(idx, key, val, next)))

\* mapping[key] = val on token idx, and the while loop of parse_map again
\* with the cursor at next
parse_map_store(tokens, idx, indent, mapping, key, val, next, log) ==
    parse_map_loop(tokens, next, indent, Put(mapping, key, val),
                   Append(log, Entry(idx, key, val, next)))

\* One pass of the while loop of parse_map, with the rest of the loop.
parse_map_loop(tokens, idx, indent, mapping, log) ==
    IF ~AtIndent(tokens, idx, indent) THEN Done(Mapping(mapping), idx, log)
    ELSE
      LET content == Tok(tokens, idx).content
          line_no == Tok(tokens, idx).line
          parts   == Partition(content, ":")
          key     == Strip(parts.head)
          val     == LStripSpaces(parts.tail)
          log1    == Append(log, Take("parse_map", idx, indent))
      IN  IF UnexpectedListItem(content)
          THEN Fail("Unexpected list item", line_no, log)
          ELSE IF ~parts.sep
          THEN Fail("Missing ':' in mapping", line_no, log)
          ELSE IF val # <<>>
          THEN parse_map_store(tokens, idx, indent, mapping, key, parse_scalar(val),
                               idx + 1, log1)
          ELSE IF NoDeeperBlock(tokens, idx + 1, indent)
          THEN parse_map_store(tokens, idx, indent, mapping, key, Null, idx + 1, log1)
          ELSE Once(parse_block(tokens, idx + 1, Tok(tokens, idx + 1).indent, log1),
                    LAMBDA child :
                      IF ~child.ok THEN child
                      ELSE parse_map_store(tokens, idx, indent, mapping, key,
                                           child.val, child.idx, child.log))

parse_map(tokens, idx, indent, log) ==
    Return("parse_map", idx, indent,
           parse_map_loop(tokens, idx, indent, <<>>,
                          Append(log, Call("parse_map", idx, indent))))

\* items.append(val) on token idx, and the while loop of parse_list again
\* with the cursor at next
parse_list_append(tokens, idx, indent, items, val, next, log) ==
    parse_list_loop(tokens, next, indent, Append(items, val),
                    Append(log, Item(idx, val, next)))

\* parse_list_more without item.update(child)
parse_list_more_no_update(tokens, idx, indent, items, item, next, log) ==
    IF DeeperFollows(tokens, next, indent)
    THEN Once(parse_map(tokens, next, Tok(tokens, next).indent, log),
              LAMBDA child :
                IF ~child.ok THEN child
                ELSE IF child.val.t # "map"
                THEN Fail("Expected mapping for list item", Tok(tokens, idx).line,
                          child.log)
                ELSE parse_list_append(tokens, idx, indent, items, Mapping(item),
                                       child.idx, child.log))
    ELSE parse_list_append(tokens, idx, indent, items, Mapping(item), next, log)

\* Lines 184-192: the keys that follow the inline key of the item on token
\* idx, the cursor being at next and item holding the inline key.
parse_list_more(tokens, idx, indent, items, item, next, log) ==
    IF DeeperFollows(tokens, next, indent)
    THEN Once(parse_map(tokens, next, Tok(tokens, next).indent, log),
              LAMBDA child :
                IF ~child.ok THEN child
                ELSE IF child.val.t # "map"
                THEN Fail("Expected mapping for list item", Tok(tokens, idx).line,
                          child.log)
                ELSE parse_list_append(tokens, idx, indent, items,
                                       Mapping(Update(item, child.val.v)),
                                       child.idx, child.log))
    ELSE parse_list_append(tokens, idx, indent, items, Mapping(item), next, log)

\* Lines 173-183: the item "- key: value" or "- key:" on token idx, the
\* cursor already moved on to idx + 1.
parse_list_inline(tokens, idx, indent, item_content, items, log) ==
    LET parts == Partition(item_content, ":")
        key   == Strip(parts.head)
    IN  Once(IF Strip(parts.tail) # <<>>
             THEN Done(parse_scalar(Strip(parts.tail)), idx + 1, log)
             ELSE IF DeeperFollows(tokens, idx + 1, indent)
             THEN parse_block(tokens, idx + 1, Tok(tokens, idx + 1).indent, log)
             ELSE Done(Null, idx + 1, log),
             LAMBDA first :
               IF ~first.ok THEN first
               ELSE parse_list_more(tokens, idx, indent, items,
                                    Put(<<>>, key, first.val), first.idx,
                                    Append(first.log,
                                           Inline(idx, key, first.val, first.idx))))

\* One pass of the while loop of parse_list, with the rest of the loop.
parse_list_loop(tokens, idx, indent, items, log) ==
    IF ~AtIndent(tokens, idx, indent) THEN Done(Sequence(items), idx, log)
    ELSE
      LET content == Tok(tokens, idx).content
          item_content == SubSeq(content, 3, Len(content))
          log1 == Append(log, Take("parse_list", idx, indent))
      IN  IF ~StartsWith(content, Marker)
          THEN Done(Sequence(items), idx, Append(log, Break(idx, indent)))
          ELSE IF item_content = <<>>
          THEN IF NoDeeperBlock(tokens, idx + 1, indent)
               THEN parse_list_append(tokens, idx, indent, items, Null, idx + 1, log1)
               ELSE Once(parse_block(tokens, idx + 1, Tok(tokens, idx + 1).indent, log1),
                         LAMBDA child :
                           IF ~child.ok THEN child
                           ELSE parse_list_append(tokens, idx, indent, items,
                                                  child.val, child.idx, child.log))
          ELSE IF Contains(item_content, ":")
          THEN parse_list_inline(tokens, idx, indent, item_content, items, log1)
          ELSE parse_list_append(tokens, idx, indent, items,
                                 parse_scalar(Strip(item_content)), idx + 1, log1)

parse_list(tokens, idx, indent, log) ==
    Return("parse_list", idx, indent,
           parse_list_loop(tokens, idx, indent, <<>>,
                           Append(log, Call("parse_list", idx, indent))))

\* parse_document with the leftover error naming the cursor in place of the
\* token's line
parse_document_cursor_as_line(tokens) ==
    Once(parse_block(tokens, 0, Tok(tokens, 0).indent, <<>>),
         LAMBDA top :
           IF ~top.ok THEN top
           ELSE IF top.idx # Len(tokens)
           THEN Fail("Unexpected content", top.idx + 1, top.log)
           ELSE top)

\* parse_document with the top-level block expected at indent 0
parse_document_at_indent_zero(tokens) ==
    Once(parse_block(tokens, 0, 0, <<>>),
         LAMBDA top :
           IF ~top.ok THEN top
           ELSE IF top.idx # Len(tokens)
           THEN Fail("Unexpected content", Tok(tokens, top.idx).line, top.log)
           ELSE top)

\* parse_document without the check that nothing is left over
parse_document_leftover_ignored(tokens) ==
    parse_block(tokens, 0, Tok(tokens, 0).indent, <<>>)

\* Lines 196-199: the top-level call and the check that nothing is left over.
parse_document(tokens) ==
    Once(parse_block(tokens, 0, Tok(tokens, 0).indent, <<>>),
         LAMBDA top :
           IF ~top.ok THEN top
           ELSE IF top.idx # Len(tokens)
           THEN Fail("Unexpected content", Tok(tokens, top.idx).line, top.log)
           ELSE top)

\* parse_tokens without the isinstance(data, dict) check
parse_tokens_any_shape(tokens) ==
    IF tokens = <<>>
    THEN [status |-> "value", val |-> Mapping(<<>>), tokens |-> <<>>, log |-> <<>>]
    ELSE Once(parse_document(tokens),
              LAMBDA top :
                IF ~top.ok
                THEN [status |-> "error", err |-> top.err, tokens |-> tokens,
                      log |-> top.log]
                ELSE [status |-> "value", val |-> top.val, tokens |-> tokens,
                      log |-> top.log])

\* Lines 122-123 and 196-202 on the token list.
parse_tokens(tokens) ==
    IF tokens = <<>>
    THEN [status |-> "value", val |-> Mapping(<<>>), tokens |-> <<>>, log |-> <<>>]
    ELSE Once(parse_document(tokens),
              LAMBDA top :
                IF ~top.ok
                THEN [status |-> "error", err |-> top.err, tokens |-> tokens,
                      log |-> top.log]
                ELSE IF top.val.t # "map"
                THEN [status |-> "error",
                      err |-> [msg |-> MustBeMapping],
                      tokens |-> tokens, log |-> top.log]
                ELSE [status |-> "value", val |-> top.val, tokens |-> tokens,
                      log |-> top.log])

\* parse_yaml_minimal(text): "value" with the returned dict or "error" with
\* the raised BriefError; the tokens and the log are kept beside the outcome.
parse_yaml_minimal(lines) ==
    Once(tokenize(lines, 1, <<>>),
         LAMBDA toks :
           IF ~toks.ok
           THEN [status |-> "error", err |-> toks.err, tokens |-> <<>>, log |-> <<>>]
           ELSE parse_tokens(toks.tokens))

(***************************************************************************)
(* The inputs.  A line is an indent of spaces and a content; a scalar      *)
(* fragment is a run of chunks.                                            *)
(***************************************************************************)
Spaces(n) == [i \in 1..n |-> " "]

Indents == {0, 1, 2}

Indented(contents) == {Spaces(n) \o c : n \in Indents, c \in contents}

\* Mapping entries, list items and a blank line.
Contents ==
    { <<"a", ":", " ", "1">>,            \* a: 1
      <<"a", ":">>,                      \* a:
      <<"b", ":", " ", "2">>,            \* b: 2
      <<"-", " ", "x">>,                 \* - x
      <<"-", " ", "a", ":", " ", "1">>,  \* - a: 1
      <<"-", " ", "a", ":">>,            \* - a:
      <<"-", " ">>,                      \* the sequence marker alone
      <<>> }                             \* a blank line

\* What four and more levels of nesting are built from.
DeepContents ==
    { <<"a", ":">>,                      \* a:
      <<"b", ":", " ", "2">>,            \* b: 2
      <<"-", " ", "x">>,                 \* - x
      <<"-", " ", "a", ":">> }           \* - a:

\* Lines with tabs, comments and blanks, and lines that end in each error.
TabContents ==
    { <<"a", ":", " ", "1">>,            \* a: 1
      <<"-", " ", "x">>,                 \* - x
      <<"x">>,                           \* x, no colon
      <<"a", ":", "\t", "1">>,           \* a:<tab>1, a tab in the content
      <<"\t", "a", ":", " ", "1">>,      \* <tab>a: 1, a tab in the indent
      <<"a", ":", " ", "#", "\t">>,      \* a: #<tab>, a tab in a trailing comment
      <<"#", "\t">>,                     \* #<tab>, a tab in a comment-only line
      <<"\t">> }                         \* <tab>, a line of whitespace

\* Three kinds of line for texts nested four levels deep.
NestIndents == {0, 1, 2, 3}

NestContents ==
    { <<"a", ":">>,                      \* a:
      <<"b", ":", " ", "2">>,            \* b: 2
      <<"-", " ", "a", ":">> }           \* - a:

NestLines == {Spaces(n) \o c : n \in NestIndents, c \in NestContents}

\* Pieces of scalar fragments.
Chunks ==
    { <<"t", "r", "u", "e">>, <<"T", "r">>, <<"u", "E">>,
      <<"F", "a", "l", "s", "e">>, <<"n", "u", "l", "l">>, <<"N", "o", "n", "e">>,
      <<"-">>, <<"1", "2">>, <<"3">>, <<"5">>, <<"a">>,
      <<" ">>, <<"#">>, <<"'">>, <<"\"">>, <<"'", "#">> }

(***************************************************************************)
(* The state machine.  A text is written line by line and handed to        *)
(* parse_yaml_minimal; a scalar fragment is written chunk by chunk and     *)
(* handed to parse_scalar, or written after "a:" as a one-line text.       *)
(***************************************************************************)
Init ==
    /\ text = <<>>
    /\ out = NotRun
    /\ value = <<>>
    /\ scalar = NotRun

AppendLine ==
    /\ out = NotRun
    /\ Len(text) < MaxLines
    /\ \E l \in Indented(Contents) : text' = Append(text, l)
    /\ UNCHANGED <<out, value, scalar>>

AppendDeepLine ==
    /\ out = NotRun
    /\ Len(text) < MaxDeepLines
    /\ \E l \in Indented(DeepContents) : text' = Append(text, l)
    /\ UNCHANGED <<out, value, scalar>>

AppendNestLine ==
    /\ out = NotRun
    /\ Len(text) < MaxNestLines
    /\ \E l \in NestLines : text' = Append(text, l)
    /\ UNCHANGED <<out, value, scalar>>

AppendTabLine ==
    /\ out = NotRun
    /\ Len(text) < MaxTabLines
    /\ \E l \in Indented(TabContents) : text' = Append(text, l)
    /\ UNCHANGED <<out, value, scalar>>

\* load_yaml without PyYAML: return parse_yaml_minimal(text)
Parse ==
    /\ out = NotRun /\ scalar = NotRun
    /\ out' = parse_yaml_minimal(text)
    /\ UNCHANGED <<text, value, scalar>>

AppendChunk ==
    /\ scalar = NotRun /\ out = NotRun /\ text = <<>>
    /\ Len(value) < MaxChunks
    /\ \E c \in Chunks : value' = Append(value, c)
    /\ UNCHANGED <<text, out, scalar>>

RECURSIVE Concat(_)
Concat(chunks) == IF chunks = <<>> THEN <<>> ELSE Head(chunks) \o Concat(Tail(chunks))

\* The fragment the chunks spell.
Fragment == Concat(value)

Coerce ==
    /\ scalar = NotRun /\ out = NotRun /\ text = <<>>
    /\ scalar' = [status |-> "value", val |-> parse_scalar(Fragment),
                   stripped |-> strip_comment(Fragment)]
    /\ UNCHANGED <<text, out, value>>

\* The fragment as the text after the colon of the one entry of a text.
WriteEntry ==
    /\ scalar = NotRun /\ out = NotRun /\ text = <<>>
    /\ text' = << <<"a", ":">> \o Fragment >>
    /\ UNCHANGED <<out, value, scalar>>

\* The fragment as the body of the one item of a list under the key a.
WriteItem ==
    /\ scalar = NotRun /\ out = NotRun /\ text = <<>>
    /\ text' = << <<"a", ":">>, <<" ", "-", " ">> \o Fragment >>
    /\ UNCHANGED <<out, value, scalar>>

Next == AppendLine \/ Parse

Spec == Init /\ [][Next]_vars

NextDeep == AppendDeepLine \/ Parse

SpecDeep == Init /\ [][NextDeep]_vars

NextTab == AppendTabLine \/ Parse

SpecTab == Init /\ [][NextTab]_vars

NextNest == AppendNestLine \/ Parse

SpecNest == Init /\ [][NextNest]_vars

NextScalar == AppendChunk \/ Coerce \/ WriteEntry \/ WriteItem \/ Parse

SpecScalar == Init /\ [][NextScalar]_vars

(***************************************************************************)
(* What the claims speak of, said of the text and of the outcome.          *)
(***************************************************************************)
\* parse_yaml_minimal has returned or raised
Ran == out.status \in {"value", "error"}

NonBlank(l) == Strip(l) # <<>>

HasTab(l) == Contains(l, "\t")

\* The first character after the leading spaces is "#".
CommentOnly(l) == StartsWith(LStripSpaces(l), <<"#">>)

\* The line without its leading spaces and trailing whitespace.
ContentOf(l) == RStrip(LStripSpaces(l))

RaisedAt(msg, n) == out.status = "error" /\ out.err = [msg |-> msg, line |-> n]

\* The positions in the log of the events of one kind.
Events(kind) == {i \in 1..Len(out.log) : out.log[i].ev = kind}

\* The lines that make a token, and the n-th of them.
TokenLines == {i \in 1..Len(text) : NonBlank(text[i]) /\ ~CommentOnly(text[i])}

NthTokenLine(n) ==
    CHOOSE i \in TokenLines : Cardinality({j \in TokenLines : j < i}) = n - 1

\* Token idx of the run (0-based), and what it is.
TokAt(idx) == out.tokens[idx + 1]

IsItem(idx) == StartsWith(TokAt(idx).content, Marker)

\* "key: rest" of a mapping entry token, "- key: rest" of a list item token.
EntryParts(idx) == Partition(TokAt(idx).content, ":")

ItemBody(idx) == SubSeq(TokAt(idx).content, 3, Len(TokAt(idx).content))

ItemParts(idx) == Partition(ItemBody(idx), ":")

\* A token follows token idx and is more indented than it.
DeeperNext(idx) ==
    idx + 1 < Len(out.tokens) /\ TokAt(idx + 1).indent > TokAt(idx).indent

\* The positions in the log of the returns of fn.
Returns(fn) == {r \in Events("return") : out.log[r].fn = fn}

\* parse_block, called on token idx at that token's indent, returned val
\* and the cursor next.
BlockAt(idx, val, next) ==
    \E r \in Returns("parse_block") :
        /\ out.log[r].idx = idx /\ out.log[r].indent = TokAt(idx).indent
        /\ out.log[r].val = val /\ out.log[r].next = next

\* The entries stored by the parse_map call that returned at log position r:
\* the tokens of its indent between the cursor it got and the one it gave.
EntriesOf(r) ==
    {i \in Events("entry") :
        /\ i < r
        /\ out.log[r].idx <= out.log[i].idx /\ out.log[i].idx < out.log[r].next
        /\ TokAt(out.log[i].idx).indent = out.log[r].indent}

\* The last entry of that call that has the key of entry i.
IsLastOfKey(r, i) ==
    \A j \in EntriesOf(r) : out.log[j].key = out.log[i].key => j <= i

UniqueKeys(pairs) == \A i, j \in 1..Len(pairs) : pairs[i].k = pairs[j].k => i = j

TabLine(l) == NonBlank(l) /\ ~CommentOnly(l) /\ HasTab(l)

C6_ReturnsMappingOnly ==
    /\ out.status = "value" => out.val.t = "map"
    /\ (Ran /\ TokenLines = {}) => (out.status = "value" /\ out.val = Mapping(<<>>))
    /\ (out.status = "error" /\ out.err.msg = MustBeMapping) =>
          LET last == out.log[Len(out.log)]
          IN  /\ last.ev = "return" /\ last.fn = "parse_block" /\ last.idx = 0
              /\ last.next = Len(out.tokens)
              /\ last.val.t = "seq"
    /\ (Ran /\ text = << <<"-", " ", "x">> >>) =>
          /\ out.status = "error" /\ out.err = [msg |-> MustBeMapping]
          /\ out.log[Len(out.log)].val = Sequence(<< String(<<"x">>) >>)

C6_Witness ==
    /\ text = << <<"-", " ", "x">> >>
    /\ out.status = "error" /\ out.err = [msg |-> MustBeMapping]

(***************************************************************************)
(* C10, as stated: every error parse_yaml_minimal raises names a line of   *)
(* the text.                                                               *)
(***************************************************************************)
C10_EveryErrorNamesLine ==
    out.status = "error" =>
        "line" \in DOMAIN out.err /\ out.err.line \in 1..Len(text)

(***************************************************************************)
(* C10, amended: every error of the tokenizer and of the descent names a   *)
(* line: the tab error a line with a tab, the missing colon and the        *)
(* unexpected list item the line of the token they were met on, leftover   *)
(* content the line of the first token no loop took.  The top-level shape  *)
(* error, raised by parse_yaml_minimal too, names no line.                 *)
(***************************************************************************)
C10_ErrorsNameTheirLine ==
    out.status = "error" =>
      \/ out.err = [msg |-> MustBeMapping]
      \/ /\ DOMAIN out.err = {"msg", "line"}
         /\ out.err.line \in 1..Len(text)
         /\ LET l == text[out.err.line]
            IN  CASE out.err.msg = TabsNotSupported -> HasTab(l)
                  [] out.err.msg = "Missing ':' in mapping" ->
                        /\ out.err.line \in TokenLines
                        /\ ~Contains(ContentOf(l), ":")
                  [] out.err.msg = "Unexpected list item" ->
                        /\ out.err.line \in TokenLines
                        /\ StartsWith(ContentOf(l), Marker)
                  [] out.err.msg = "Unexpected content" ->
                        out.err.line = NthTokenLine(Cardinality(Events("take")) + 1)
                  [] OTHER -> FALSE

\* A comment line first, so that the cursor and the line number differ.
C10_Witness ==
    /\ Len(text) = 3 /\ CommentOnly(text[1])
    /\ RaisedAt("Unexpected content", 3)

(***************************************************************************)
(* C2, as stated: a line that holds only the sequence marker raises no     *)
(* error, and in a returned value its item is the nested Value of the      *)
(* block that follows more indented, else Null.                            *)
(***************************************************************************)
C2_EmptyItemIsNullOrNested ==
    Ran => \A n \in 1..Len(text) :
        LStripSpaces(text[n]) = Marker =>
          /\ ~(out.status = "error" /\ "line" \in DOMAIN out.err /\ out.err.line = n)
          /\ out.status = "value" =>
               \E i \in Events("item") :
                 LET e == out.log[i]
                 IN  /\ TokAt(e.idx).line = n
                     /\ IF DeeperNext(e.idx)
                        THEN BlockAt(e.idx + 1, e.val, e.next)
                        ELSE e.val = Null /\ e.next = e.idx + 1

(***************************************************************************)
(* C5: a mapping entry "key:" with nothing after the colon is bound to the *)
(* Value of the block at the next token, parsed at that token's indent,    *)
(* when that token is more indented, and the loop goes on at the cursor    *)
(* that parse returned; else it is bound to Null and the loop goes on at   *)
(* the next token.  The key is in the Mapping the call returns.            *)
(***************************************************************************)
C5_EmptyEntryNestedOrNull ==
    Ran => \A i \in Events("entry") :
        LET e == out.log[i]
        IN  EntryParts(e.idx).tail = <<>> =>
              /\ e.key = Strip(EntryParts(e.idx).head)
              /\ IF DeeperNext(e.idx)
                 THEN BlockAt(e.idx + 1, e.val, e.next)
                 ELSE e.val = Null /\ e.next = e.idx + 1
              \* the loop goes on at e.next
              /\ i < Len(out.log) =>
                   \/ out.log[i + 1] = Take("parse_map", e.next, TokAt(e.idx).indent)
                   \/ /\ out.log[i + 1].ev = "return" /\ out.log[i + 1].fn = "parse_map"
                      /\ out.log[i + 1].next = e.next
              /\ \A r \in Returns("parse_map") :
                   i \in EntriesOf(r) =>
                     /\ e.key \in Keys(out.log[r].val.v)
                     /\ IsLastOfKey(r, i) => Lookup(out.log[r].val.v, e.key) = e.val

\* a: with a deeper block, whose a: has none
C5_Witness ==
    /\ text = << <<"a", ":">>, <<" ", "a", ":">>, <<"b", ":", " ", "2">> >>
    /\ out.status = "value"
    /\ out.val = Mapping(<< [k |-> <<"a">>,
                             v |-> Mapping(<< [k |-> <<"a">>, v |-> Null] >>)],
                            [k |-> <<"b">>, v |-> Integer(2)] >>)

(***************************************************************************)
(* C7: a mapping holds each key once, bound to the value of its last       *)
(* entry in the block; the keys that follow a list item's inline key       *)
(* overwrite it likewise; a text of nothing but entries at one indent      *)
(* raises no error, whatever keys repeat.                                  *)
(***************************************************************************)
\* The value the entry on line l of a flat text gives its key.
FlatValue(l) ==
    LET rest == LStripSpaces(Partition(ContentOf(l), ":").tail)
    IN  IF rest = <<>> THEN Null ELSE parse_scalar(rest)

FlatKey(l) == Strip(Partition(ContentOf(l), ":").head)

\* Every token line is a mapping entry at the indent of the first one.
FlatText ==
    /\ TokenLines # {}
    /\ \A n \in TokenLines :
         /\ ~HasTab(text[n])
         /\ ~StartsWith(ContentOf(text[n]), Marker)
         /\ Contains(text[n], ":")
         /\ \A m \in TokenLines :
              Len(text[n]) - Len(LStripSpaces(text[n]))
                  = Len(text[m]) - Len(LStripSpaces(text[m]))

C7_LastKeyWins ==
    Ran =>
      /\ \A r \in Returns("parse_map") :
           /\ UniqueKeys(out.log[r].val.v)
           /\ \A i \in EntriesOf(r) :
                IsLastOfKey(r, i) =>
                    Lookup(out.log[r].val.v, out.log[i].key) = out.log[i].val
      /\ \A i \in Events("item") :
           \A j \in Events("inline") :
             out.log[j].idx = out.log[i].idx =>
               LET item == out.log[i].val.v
                   first == out.log[j]
               IN  /\ UniqueKeys(item)
                   /\ \A r \in Returns("parse_map") :
                        (j < r /\ r < i /\ out.log[r].idx = first.next) =>
                            \A q \in 1..Len(out.log[r].val.v) :
                                Lookup(item, out.log[r].val.v[q].k)
                                    = out.log[r].val.v[q].v
      /\ FlatText =>
           /\ out.status = "value"
           /\ UniqueKeys(out.val.v)
           /\ \A n \in TokenLines :
                (\A m \in TokenLines : FlatKey(text[m]) = FlatKey(text[n]) => m <= n)
                => Lookup(out.val.v, FlatKey(text[n])) = FlatValue(text[n])

\* a: 1 then a: in one block, and a list item whose later key is its inline key
C7_Witness ==
    /\ text = << <<"a", ":", " ", "1">>, <<"a", ":">>, <<"a", ":", " ", "1">> >>
    /\ out.status = "value"
    /\ out.val = Mapping(<< [k |-> <<"a">>, v |-> Integer(1)] >>)

C7_WitnessItem ==
    /\ text = << <<"a", ":">>, <<" ", "-", " ", "a", ":", " ", "1">>,
                 <<" ", " ", "a", ":">> >>
    /\ out.status = "value"
    /\ out.val = Mapping(<< [k |-> <<"a">>,
                             v |-> Sequence(<< Mapping(<< [k |-> <<"a">>,
                                                           v |-> Null] >>) >>)] >>)

(***************************************************************************)
(* C4: the item of "- k: v" or "- k:" is one Mapping: k, bound to the      *)
(* coerced scalar, to the block right after an empty "k:" or to Null       *)
(* (unless a later key of the item is k again, C7), and every key of the   *)
(* run of entries that follows at one indent greater than the item's; a    *)
(* Sequence has one element for each "- " token at its indent, in source   *)
(* order; "- a: 1" with a deeper "b: 2" is [{a: 1, b: 2}].                 *)
(***************************************************************************)
\* The tokens of the run of entries merged into the item of log position i,
\* whose inline key was set at log position j.
RunOf(i, j) ==
    {m \in out.log[j].next..(out.log[i].next - 1) :
        TokAt(m).indent = TokAt(out.log[j].next).indent}

\* The "- " tokens of the list that returned at log position r.
ItemsOf(r) ==
    {m \in out.log[r].idx..(out.log[r].next - 1) :
        TokAt(m).indent = out.log[r].indent /\ IsItem(m)}

C4_InlineItemIsOneMapping ==
    Ran =>
      /\ \A i \in Events("item") :
           (IsItem(out.log[i].idx) /\ Contains(ItemBody(out.log[i].idx), ":")) =>
             \E j \in Events("inline") :
               LET it    == out.log[i]
                   first == out.log[j]
                   rest  == Strip(ItemParts(it.idx).tail)
                   run   == RunOf(i, j)
                   runKeys == {Strip(EntryParts(m).head) : m \in run}
               IN  /\ j < i /\ first.idx = it.idx
                   /\ first.key = Strip(ItemParts(it.idx).head)
                   /\ IF rest # <<>>
                      THEN first.val = parse_scalar(rest) /\ first.next = it.idx + 1
                      ELSE IF DeeperNext(it.idx)
                      THEN BlockAt(it.idx + 1, first.val, first.next)
                      ELSE first.val = Null /\ first.next = it.idx + 1
                   /\ it.val.t = "map"
                   /\ Keys(it.val.v) = {first.key} \cup runKeys
                   /\ first.key \notin runKeys => Lookup(it.val.v, first.key) = first.val
                   \* the run: one indent, deeper than the item, and all of it
                   /\ \A m \in run : TokAt(m).indent > TokAt(it.idx).indent
                   /\ (it.next < Len(out.tokens) /\ run # {}) =>
                          TokAt(it.next).indent # TokAt(first.next).indent
                   /\ (it.next < Len(out.tokens) /\ run = {}) =>
                          TokAt(it.next).indent <= TokAt(it.idx).indent
      /\ \A r \in Returns("parse_list") :
           /\ Len(out.log[r].val.v) = Cardinality(ItemsOf(r))
           /\ \A i \in Events("item") :
                (i < r /\ out.log[i].idx \in ItemsOf(r)) =>
                   out.log[r].val.v[Cardinality({m \in ItemsOf(r) : m <= out.log[i].idx})]
                       = out.log[i].val
      /\ text = << <<"-", " ", "a", ":", " ", "1">>, <<" ", " ", "b", ":", " ", "2">> >> =>
           out.log[Len(out.log)].val =
               Sequence(<< Mapping(<< [k |-> <<"a">>, v |-> Integer(1)],
                                      [k |-> <<"b">>, v |-> Integer(2)] >>) >>)

\* Two items in one Sequence, the first with a key after its inline key.
C4_Witness ==
    /\ text = << <<"-", " ", "a", ":", " ", "1">>, <<" ", " ", "b", ":", " ", "2">>,
                 <<"-", " ", "x">> >>
    /\ out.status = "error" /\ out.err = [msg |-> MustBeMapping]
    /\ out.log[Len(out.log)].val =
           Sequence(<< Mapping(<< [k |-> <<"a">>, v |-> Integer(1)],
                                  [k |-> <<"b">>, v |-> Integer(2)] >>),
                       String(<<"x">>) >>)

(***************************************************************************)
(* C3, as stated: two tokens of one block (same indent, only deeper tokens *)
(* between them), one a "- " token and the other not, in whatever nesting, *)
(* make parse_yaml_minimal raise.                                          *)
(***************************************************************************)
\* Tokens p and j are entries of one block, p before j.
Siblings(p, j) ==
    /\ p < j
    /\ TokAt(p).indent = TokAt(j).indent
    /\ \A m \in (p + 1)..(j - 1) : TokAt(m).indent > TokAt(p).indent

TokenIds == 0..(Len(out.tokens) - 1)

C3_MixingAlwaysRaises ==
    Ran => \A p, j \in TokenIds :
              (Siblings(p, j) /\ IsItem(p) # IsItem(j)) => out.status = "error"

(***************************************************************************)
(* C3, amended: a "- " token that follows a mapping entry of its block     *)
(* always raises a line-numbered error.  A mapping entry that follows a    *)
(* "- " token of its block raises one too, at top level and under a        *)
(* mapping key, unless the list lies inside the block value of a list      *)
(* item's inline "- k:": then parse_list hands the token to parse_map as   *)
(* the first of that item's further keys, and a value can be returned.     *)
(***************************************************************************)
\* Token q is a list item "- k:" and tokens q+1 .. j are all deeper than it.
InlineKeyEncloses(q, j) ==
    /\ q < j
    /\ IsItem(q) /\ Contains(ItemBody(q), ":") /\ Strip(ItemParts(q).tail) = <<>>
    /\ \A m \in (q + 1)..j : TokAt(m).indent > TokAt(q).indent

\* parse_list called parse_map on token j right after setting an inline key
\* (line 185).
TakenAsFurtherKeys(j) ==
    \E c \in 2..Len(out.log) :
        /\ out.log[c] = Call("parse_map", j, TokAt(j).indent)
        /\ out.log[c - 1].ev = "inline" /\ out.log[c - 1].next = j

C3_MixingRaisesUnlessFurtherKeys ==
    Ran => \A p, j \in TokenIds :
        Siblings(p, j) =>
          /\ (~IsItem(p) /\ IsItem(j)) =>
                (out.status = "error" /\ "line" \in DOMAIN out.err)
          /\ (IsItem(p) /\ ~IsItem(j)) =>
                IF \E q \in TokenIds : q < p /\ InlineKeyEncloses(q, j)
                THEN out.status = "value" => TakenAsFurtherKeys(j)
                ELSE out.status = "error" /\ "line" \in DOMAIN out.err

\* A value is returned although "b: 2" follows "- x" at the indent of "- x".
C3_Witness ==
    /\ out.status = "value"
    /\ \E p, j \in TokenIds : Siblings(p, j) /\ IsItem(p) /\ ~IsItem(j)

(***************************************************************************)
(* C8: a fragment that is empty after comment stripping (whitespace, or    *)
(* whitespace and then a comment) coerces to the String "", not to Null.   *)
(* An entry "a:<rest>" or item "- <rest>" whose rest is such a fragment is *)
(* bound to "" when the rest holds a comment, and the entry is Null only   *)
(* when nothing stands after the colon and no deeper block follows.        *)
(***************************************************************************)
EmptyAfterStripping(f) == LStrip(f) = <<>> \/ Head(LStrip(f)) = "#"

\* The text is the one entry "a:" and rest, or "a:" and the one item "- " and rest.
IsEntryOf(rest) == text = << <<"a", ":">> \o rest >>

IsItemOf(rest) == text = << <<"a", ":">>, <<" ", "-", " ">> \o rest >>

\* A text of one mapping entry, of which a is the key
WrittenEntry == Len(text) = 1 /\ IsEntryOf(SubSeq(text[1], 3, Len(text[1])))

WrittenItem == Len(text) = 2 /\ IsItemOf(SubSeq(text[2], 4, Len(text[2])))

DigitOf(c) ==
    CASE c = "0" -> 0 [] c = "1" -> 1 [] c = "2" -> 2 [] c = "3" -> 3 [] c = "4" -> 4
      [] c = "5" -> 5 [] c = "6" -> 6 [] c = "7" -> 7 [] c = "8" -> 8 [] c = "9" -> 9

RECURSIVE Pow10(_)
Pow10(n) == IF n = 0 THEN 1 ELSE 10 * Pow10(n - 1)

RECURSIVE PlaceSum(_, _)
\* The sum of digit times place value, from position i on.
PlaceSum(s, i) ==
    IF i > Len(s) THEN 0 ELSE DigitOf(s[i]) * Pow10(Len(s) - i) + PlaceSum(s, i + 1)

AllDigits(s) ==
    s # <<>> /\ \A i \in 1..Len(s) :
                   s[i] \in {"0", "1", "2", "3", "4", "5", "6", "7", "8", "9"}

SignedDigits(s) == AllDigits(s) \/ (s # <<>> /\ s[1] = "-" /\ AllDigits(Tail(s)))

SignedValue(s) == IF s[1] = "-" THEN 0 - PlaceSum(Tail(s), 1) ELSE PlaceSum(s, 1)

QuoteWrapped(s) == s # <<>> /\ s[1] \in {"'", "\""} /\ s[Len(s)] = s[1]

NoQuote == [single |-> FALSE, double |-> FALSE]

\* The flags after character c, f being the flags before it.
Toggle(f, c) ==
    IF c = "'" /\ ~f.double THEN [f EXCEPT !.single = ~f.single]
    ELSE IF c = "\"" /\ ~f.single THEN [f EXCEPT !.double = ~f.double]
    ELSE f

RECURSIVE QuoteFlags(_, _)
\* The flags after the first n characters of s.
QuoteFlags(s, n) ==
    IF n = 0 THEN NoQuote
    ELSE Once(QuoteFlags(s, n - 1), LAMBDA f : Toggle(f, s[n]))

\* The positions of the "#" that stand outside every quoted run.
OpenHashes(s) == {i \in 1..Len(s) : s[i] = "#" /\ QuoteFlags(s, i - 1) = NoQuote}

FirstOpenHash(s) == CHOOSE i \in OpenHashes(s) : \A j \in OpenHashes(s) : i <= j

C11_CutsAtFirstUnquotedHash ==
    scalar.status = "value" =>
      /\ OpenHashes(Fragment) # {} =>
            scalar.stripped = RStrip(SubSeq(Fragment, 1, FirstOpenHash(Fragment) - 1))
      /\ OpenHashes(Fragment) = {} => scalar.stripped = Strip(Fragment)
      /\ \A i \in 1..Len(Fragment) :
            (Fragment[i] = "#" /\ QuoteFlags(Fragment, i - 1) # NoQuote
               /\ \A j \in OpenHashes(Fragment) : j > i)
            => \E k \in 1..Len(scalar.stripped) : scalar.stripped[k] = "#"

\* '#'# is cut at the second "#" only
C11_Witness ==
    /\ Fragment = <<"'", "#", "'", "#">>
    /\ scalar.status = "value"
    /\ scalar.stripped = <<"'", "#", "'">>

(***************************************************************************)
(* C12, as stated: when parse_yaml_minimal returns a value the final       *)
(* cursor is the number of tokens and every token was taken exactly once,  *)
(* by a parse_map or parse_list iteration at the token's own indent; and a *)
(* token deeper than the scalar-valued entry before it, or dedented to a   *)
(* level no open block has, always makes the parse raise.                  *)
(***************************************************************************)
\* The loop iterations that took token idx.
TakenBy(idx) == {i \in Events("take") : out.log[i].idx = idx}

\* The last event of the run is the return of the top-level parse_block
\* with the cursor after the last token.
FinalCursorAtEnd ==
    /\ out.log # <<>>
    /\ LET top == out.log[Len(out.log)]
       IN  /\ top.ev = "return" /\ top.fn = "parse_block" /\ top.idx = 0
           /\ top.next = Len(out.tokens)

EveryTokenTakenOnce ==
    \A idx \in TokenIds :
        /\ Cardinality(TakenBy(idx)) = 1
        /\ \A i \in TakenBy(idx) :
              /\ out.log[i].fn \in {"parse_map", "parse_list"}
              /\ out.log[i].indent = TokAt(idx).indent

\* Token j is deeper than token j - 1, a mapping entry "key: scalar".
DeeperAfterScalar(j) ==
    /\ j > 0
    /\ ~IsItem(j - 1)
    /\ EntryParts(j - 1).sep /\ LStripSpaces(EntryParts(j - 1).tail) # <<>>
    /\ TokAt(j).indent > TokAt(j - 1).indent

\* Token j is less indented than token j - 1 and no block begun before it
\* and still open has its indent.
DedentToNoBlock(j) ==
    /\ j > 0
    /\ TokAt(j).indent < TokAt(j - 1).indent
    /\ ~\E p \in 0..(j - 1) :
          /\ TokAt(p).indent = TokAt(j).indent
          /\ \A m \in (p + 1)..(j - 1) : TokAt(m).indent > TokAt(p).indent

Consumption ==
    /\ (out.status = "value" /\ out.tokens # <<>>) =>
          (FinalCursorAtEnd /\ EveryTokenTakenOnce)
    /\ (Ran /\ \E idx \in TokenIds : TakenBy(idx) = {}) =>
          (out.status = "error" /\ "line" \in DOMAIN out.err)

C12_MismatchAlwaysRaises ==
    Ran => /\ Consumption
           /\ \A j \in TokenIds :
                 (DeeperAfterScalar(j) \/ DedentToNoBlock(j)) => out.status = "error"

(***************************************************************************)
(* C12, amended: the same, but a token deeper than the scalar-valued entry *)
(* before it, or dedented to a level no open block has, raises a           *)
(* line-numbered error unless it lies inside the reach of a list item's    *)
(* inline "- k:" (every token from the item to it is deeper than the       *)
(* item); there, when a value is returned, parse_list handed the token to  *)
(* parse_map as the first of the item's further keys (line 185).           *)
(***************************************************************************)
C12_MismatchRaisesUnlessFurtherKeys ==
    Ran => /\ Consumption
           /\ \A j \in TokenIds :
                 (DeeperAfterScalar(j) \/ DedentToNoBlock(j)) =>
                    IF \E q \in TokenIds : InlineKeyEncloses(q, j)
                    THEN out.status = "value" => TakenAsFurtherKeys(j)
                    ELSE out.status = "error" /\ "line" \in DOMAIN out.err

\* a: / - a: / b: 2 / b: 2, each one deeper than the line before
C12_Witness ==
    /\ text = << <<"a", ":">>, <<" ", "-", " ", "a", ":">>,
                 <<" ", " ", "b", ":", " ", "2">>,
                 <<" ", " ", " ", "b", ":", " ", "2">> >>
    /\ out.status = "value"
    /\ out.val = Mapping(<< [k |-> <<"a">>,
                             v |-> Sequence(<< Mapping(<<
                                     [k |-> <<"a">>,
                                      v |-> Mapping(<< [k |-> <<"b">>, v |-> Integer(2)] >>)],
                                     [k |-> <<"b">>, v |-> Integer(2)] >>) >>)] >>)
    /\ EveryTokenTakenOnce /\ DeeperAfterScalar(3) /\ TakenAsFurtherKeys(3)

(***************************************************************************)
(* C13: parse_scalar takes quotes off only a value wrapped in a matching   *)
(* pair: at least two characters, the first and the last the same quote    *)
(* character.  The result is then the inner characters as they are; every  *)
(* other value that reaches this rule, one lone quote character included,  *)
(* is returned unchanged as a String.                                      *)
(***************************************************************************)
\* No earlier rule of parse_scalar fits the comment-stripped text t.
ReachesQuoteRule(t) ==
    /\ t # <<>>
    /\ Lower(t) \notin {<<"t", "r", "u", "e">>, <<"f", "a", "l", "s", "e">>,
                        <<"n", "u", "l", "l">>, <<"n", "o", "n", "e">>}
    /\ ~SignedDigits(t)

MatchingPair(t) == Len(t) >= 2 /\ t[1] \in {"'", "\""} /\ t[Len(t)] = t[1]

C13_QuotesOffOnlyAPair ==
    (scalar.status = "value" /\ ReachesQuoteRule(scalar.stripped)) =>
        IF MatchingPair(scalar.stripped)
        THEN scalar.val = String(SubSeq(scalar.stripped, 2, Len(scalar.stripped) - 1))
        ELSE scalar.val = String(scalar.stripped)

(***************************************************************************)
(* C14: every call of parse_block is made with a cursor inside the token   *)
(* sequence and with the indent of the token at that cursor.  So the       *)
(* "Unexpected indentation" error is never raised, and parse_block never   *)
(* returns the (None, idx) of a cursor past the end: it returns what       *)
(* parse_list or parse_map returned.                                       *)
(***************************************************************************)
BlockCalls == {c \in Events("call") : out.log[c].fn = "parse_block"}

C14_BlockCalledAtTokenIndent ==
    Ran =>
      /\ \A c \in BlockCalls :
            /\ out.log[c].idx < Len(out.tokens)
            /\ out.log[c].indent = TokAt(out.log[c].idx).indent
      /\ ~(out.status = "error" /\ out.err.msg = "Unexpected indentation")
      /\ \A r \in Returns("parse_block") :
            /\ out.log[r].idx < Len(out.tokens)
            /\ out.log[r].val.t \in {"map", "seq"}
            /\ out.log[r].next > out.log[r].idx
      /\ out.tokens # <<>> => BlockCalls # {}

\* The top-level call, a key with a deeper block and a list item with an
\* inline key and a deeper block: three calls of parse_block.
C14_Witness ==
    /\ text = << <<"a", ":">>, <<" ", "-", " ", "a", ":">>,
                 <<" ", " ", "b", ":", " ", "2">> >>
    /\ out.status = "value"
    /\ Cardinality(BlockCalls) = 3
    /\ \E c \in BlockCalls : out.log[c] = Call("parse_block", 2, 2)

(***************************************************************************)
(* C15: the descent ends on every finite token sequence.  The cursor never *)
(* goes back; every call of parse_block, parse_map or parse_list that      *)
(* returns gives a cursor beyond the one it got; every loop iteration that *)
(* stores an entry or appends an item moved the cursor on by at least one  *)
(* token; and no more loop iterations take a token than there are tokens.  *)
(***************************************************************************)
\* Where the cursor stands at an event of the log.
CursorAt(e) == IF e.ev \in {"call", "take", "break"} THEN e.idx ELSE e.next

CursorNeverGoesBack ==
    \A i, j \in 1..Len(out.log) : i < j => CursorAt(out.log[i]) <= CursorAt(out.log[j])

CallsAdvance ==
    /\ \A c \in Events("call") : out.log[c].idx < Len(out.tokens)
    /\ \A r \in Events("return") :
          /\ out.log[r].fn \in {"parse_block", "parse_map", "parse_list"}
          /\ out.log[r].next > out.log[r].idx
          /\ out.log[r].next <= Len(out.tokens)

IterationsAdvance ==
    \A i \in Events("entry") \cup Events("item") \cup Events("inline") :
        out.log[i].next >= out.log[i].idx + 1

OneStepPerToken ==
    /\ \A i, j \in Events("take") : i < j => out.log[i].idx < out.log[j].idx
    /\ Cardinality(Events("take")) <= Len(out.tokens)
    /\ Cardinality(Events("entry") \cup Events("item")) <= Cardinality(Events("take"))

C15_DescentTerminates ==
    Ran => /\ CursorNeverGoesBack
           /\ CallsAdvance
           /\ IterationsAdvance
           /\ OneStepPerToken

\* a: / - a: / b: 2: the three functions are called and return, each with a
\* cursor beyond the one it got, and three iterations take the three tokens.
C15_Witness ==
    /\ out.status = "value"
    /\ Len(out.tokens) = 3
    /\ \E r \in Returns("parse_list") : out.log[r].idx = 1 /\ out.log[r].next = 3
    /\ \E r \in Returns("parse_map") : out.log[r].idx = 2 /\ out.log[r].next = 3
    /\ \E r \in Returns("parse_block") : out.log[r].idx = 0 /\ out.log[r].next = 3
    /\ Cardinality(Events("take")) = 3

====
